---- MODULE Spec2Model ----
(***************************************************************************)
(* Model of src/net/connection.rs: one Connection, from the call of        *)
(* Connection::new to the calls a caller makes on the returned value.      *)
(*                                                                         *)
(* Connection::new is modelled statement by statement (pc names the        *)
(* statement reached); every method of Connection is one action.  The      *)
(* socket, the TLS session, the clock, the Buffer and the authentication   *)
(* collaborator are the environment.  Time is a discrete clock `now`; an   *)
(* action happens at the instant its call returns.                         *)
(***************************************************************************)
EXTENDS Integers, Sequences, FiniteSets, TLC

\* ------------------------------------------------------------------ bounds
\* MaxTime: last instant of the clock; MaxIdle: the positive idle timeout;
\* MaxLen: longest slice read or written; MaxBytes: cap of bytes_read
MaxTime == 1
MaxIdle == 1
MaxLen == 1
MaxBytes == 1

\* Option::None for Option<Duration> / Option<Instant>
None == -1

Byte == {0, 1}
Durations == 0..1
IdleDurations == {0, MaxIdle}
Sizes == 0..MaxLen

BytesOfLen(n) == [1..n -> Byte]
Payloads == UNION {BytesOfLen(n) : n \in Sizes}

VARIABLES
    pc,            \* statement of Connection::new reached / "ready" / "failed" / "panicked"
    policy,        \* the ClientPolicy passed to Connection::new
    now,           \* Instant::now()
    socks,         \* the TCP sockets opened so far, in order of opening
    tls_conn,      \* Result of ClientConnection::new: "none" | "ok" | "err"
    tls,           \* TLS session of the stream: "none" | "pending" | "established" | "failed"
    conn,          \* Connection.conn: [kind: "none"|"TLS"|"Plain", sock: index into socks]
    timeout,       \* Connection.timeout
    idle_timeout,  \* Connection.idle_timeout
    idle_deadline, \* Connection.idle_deadline
    bytes_read,    \* Connection.bytes_read
    buffer,        \* Connection.buffer: [data_buffer, data_offset]
    auth_calls,    \* number of invocations of AdminCommand::authenticate
    auth_err,      \* error the collaborator returned: "none" | "AuthenticationError" | "IoError"
    result,        \* what Connection::new returned: "none" | "Ok" | an error kind
    last,          \* the latest method call on the connection: [op, ok: it returned no
                   \* error, n: the size a successful read, read_buffer or flush moved, or
                   \* the value a successful set_timeout was given, sent: the bytes
                   \* a successful flush handed to the transport]
    last_io        \* time of the latest successful I/O (construction counts as one)

vars == <<pc, policy, now, socks, tls_conn, tls, conn, timeout, idle_timeout,
          idle_deadline, bytes_read, buffer, auth_calls, auth_err, result,
          last, last_io>>

\* the part of the state the methods of a Connection act on
method_vars == <<socks, tls, idle_deadline, bytes_read, buffer, last, last_io>>

\* the part of the state only Connection::new assigns
ctor_vars == <<policy, tls_conn, conn, timeout, idle_timeout, auth_calls, auth_err, result>>

\* The policies Connection::new is called with.  tls_config and user_password
\* are present or absent.  timeout is present: the connection copies it into
\* a field (line 68) and no method reads that field again.
Policies ==
    [tls_config : BOOLEAN,
     timeout : {1},
     idle_timeout : {None} \cup IdleDurations,
     user_password : BOOLEAN]

NoCall == [op |-> "none", ok |-> TRUE, n |-> 0, sent |-> <<>>]
Call(op, ok, n) == [op |-> op, ok |-> ok, n |-> n, sent |-> <<>>]
Wrote(op, ok, data) ==
    [op |-> op, ok |-> ok, n |-> IF ok THEN Len(data) ELSE 0,
     sent |-> IF ok THEN data ELSE <<>>]

\* a freshly connected TcpStream: no read or write timeout
NewSocket == [st |-> "open", rt |-> None, wt |-> None]

Init ==
    /\ pc = "connect"
    /\ policy \in Policies
    /\ now = 0
    /\ socks = <<>>
    /\ tls_conn = "none"
    /\ tls = "none"
    /\ conn = [kind |-> "none", sock |-> 0]
    /\ timeout = None
    /\ idle_timeout = None
    /\ idle_deadline = None
    /\ bytes_read = 0
    /\ buffer = [data_buffer |-> <<>>, data_offset |-> 0]
    /\ auth_calls = 0
    /\ auth_err = "none"
    /\ result = "none"
    /\ last = NoCall
    /\ last_io = None

\* ------------------------------------------------------------ environment
Sock == socks[conn.sock]

SetSockState(st) == [socks EXCEPT ![conn.sock].st = st]

\* a TcpStream going out of scope: the descriptor is closed
DropAll(ss) == [i \in 1..Len(ss) |-> [ss[i] EXCEPT !.st = "closed"]]

IoOutcomes == {"ok", "timeout", "eof", "broken", "tls_fail"}

\* What a non-empty blocking call on the stream can do.  d is the socket
\* deadline that bounds the call.
\*   ok        the call completes (a pending TLS session is established first)
\*   timeout   the deadline elapses; impossible when no deadline is set
\*   eof       the peer closes or resets the connection during the call
\*   broken    the socket is shut down or the peer is gone, or the session failed
\*   tls_fail  the TLS handshake, run lazily by the first I/O, fails
transport_io(o, d) ==
    CASE o = "ok" ->
              /\ Sock.st = "open" /\ tls # "failed"
              /\ tls' = IF conn.kind = "TLS" THEN "established" ELSE tls
              /\ UNCHANGED socks
         [] o = "timeout" ->
              /\ Sock.st = "open" /\ tls # "failed" /\ d # None
              /\ UNCHANGED <<socks, tls>>
         [] o = "eof" ->
              /\ Sock.st = "open" /\ tls # "failed"
              /\ socks' = SetSockState("peer_closed")
              /\ UNCHANGED tls
         [] o = "broken" ->
              /\ Sock.st # "open" \/ tls = "failed"
              /\ UNCHANGED <<socks, tls>>
         [] o = "tls_fail" ->
              /\ Sock.st = "open" /\ conn.kind = "TLS" /\ tls = "pending"
              /\ tls' = "failed"
              /\ UNCHANGED socks

\* Write::write_all: an empty slice succeeds without a call on the stream
write_all(data, o) ==
    IF Len(data) = 0
    THEN o = "ok" /\ UNCHANGED <<socks, tls>>
    ELSE transport_io(o, Sock.wt)

\* Read::read_exact: an empty slice succeeds without a call on the stream
read_exact(n, o) ==
    IF n = 0
    THEN o = "ok" /\ UNCHANGED <<socks, tls>>
    ELSE transport_io(o, Sock.rt)

\* Buffer (commands/buffer.rs)
Buffer_new == [data_buffer |-> <<>>, data_offset |-> 0]

resize_buffer(b, size) ==
    [b EXCEPT !.data_buffer =
        [i \in 1..size |-> IF i <= Len(b.data_buffer) THEN b.data_buffer[i] ELSE 0]]

reset_offset(b) == [b EXCEPT !.data_offset = 0]

\* the bytes read_exact leaves in a target of length Len(old): all of them
\* new on success, a proper prefix of them new on failure
Filled(old, o) ==
    IF o = "ok"
    THEN BytesOfLen(Len(old))
    ELSE IF o \in {"timeout", "eof"}
         THEN {[i \in 1..Len(old) |-> IF i <= Len(d) THEN d[i] ELSE old[i]] :
                 d \in UNION {BytesOfLen(k) : k \in 0..(Len(old) - 1)}}
         ELSE {old}

\* ------------------------------------------------------- Connection methods
\* The methods constrain the connection's mutable state and the environment;
\* the caller of a method says what becomes of pc, now and ctor_vars.

\* refresh as it would be if it kept a deadline that is already set
refresh_keeps_deadline ==
    idle_deadline' = IF idle_timeout = None THEN None
                     ELSE IF idle_deadline = None THEN now + idle_timeout
                     ELSE idle_deadline

\* refresh as it would be if it set a deadline whether or not an idle timeout is configured
refresh_always_sets ==
    idle_deadline' = IF idle_timeout # None THEN now + idle_timeout ELSE now

refresh ==
    idle_deadline' = IF idle_timeout # None THEN now + idle_timeout ELSE None

is_idle == idle_deadline # None /\ now >= idle_deadline

\* close as it would be if it returned the Result of shutdown
close_reports_shutdown ==
    /\ \E accepted \in BOOLEAN :
          /\ accepted => Sock.st \in {"open", "shutdown"}
          /\ ~accepted => Sock.st # "open"
          /\ socks' = IF accepted THEN SetSockState("shutdown") ELSE socks
          /\ last' = Call("close", accepted, 0)
    /\ UNCHANGED <<tls, idle_deadline, bytes_read, buffer, last_io>>

\* lines 81-90: shutdown(Shutdown::Both) on the stream's socket, its Result
\* discarded.  The platform accepts the shutdown of a connected socket and
\* rejects that of a socket the peer has reset; of a socket already shut
\* down it does either.
close ==
    /\ \E accepted \in BOOLEAN :
          /\ accepted => Sock.st \in {"open", "shutdown"}
          /\ ~accepted => Sock.st # "open"
          /\ socks' = IF accepted THEN SetSockState("shutdown") ELSE socks
    /\ last' = Call("close", TRUE, 0)
    /\ UNCHANGED <<tls, idle_deadline, bytes_read, buffer,
                   last_io>>

\* flush as it would be if it sent only what lies past the buffer's offset
flush_from_offset(o) ==
    /\ write_all(SubSeq(buffer.data_buffer, buffer.data_offset + 1,
                        Len(buffer.data_buffer)), o)
    /\ IF o = "ok"
       THEN refresh /\ last_io' = now
       ELSE UNCHANGED <<idle_deadline, last_io>>
    /\ last' = Wrote("flush", o = "ok",
                     SubSeq(buffer.data_buffer, buffer.data_offset + 1,
                            Len(buffer.data_buffer)))
    /\ UNCHANGED <<bytes_read, buffer>>

flush(o) ==
    /\ write_all(buffer.data_buffer, o)
    /\ IF o = "ok"
       THEN refresh /\ last_io' = now
       ELSE UNCHANGED <<idle_deadline, last_io>>
    /\ last' = Wrote("flush", o = "ok", buffer.data_buffer)
    /\ UNCHANGED <<bytes_read, buffer>>

\* write as it would be if it refreshed the deadline before looking at the
\* Result of write_all
write_refreshes_first(buf, o) ==
    /\ write_all(buf, o)
    /\ refresh
    /\ last_io' = IF o = "ok" THEN now ELSE last_io
    /\ last' = Call("write", o = "ok", 0)
    /\ UNCHANGED <<bytes_read, buffer>>

write(buf, o) ==
    /\ write_all(buf, o)
    /\ IF o = "ok"
       THEN refresh /\ last_io' = now
       ELSE UNCHANGED <<idle_deadline, last_io>>
    /\ last' = Call("write", o = "ok", 0)
    /\ UNCHANGED <<bytes_read, buffer>>

read(n, o) ==
    /\ bytes_read + n <= MaxBytes
    /\ read_exact(n, o)
    /\ IF o = "ok"
       THEN /\ bytes_read' = bytes_read + n
            /\ refresh /\ last_io' = now
       ELSE UNCHANGED <<bytes_read, idle_deadline, last_io>>
    /\ last' = Call("read", o = "ok", IF o = "ok" THEN n ELSE 0)
    /\ UNCHANGED <<buffer>>

\* read_buffer as it would be without line 109, the reset of the read offset
read_buffer_no_reset(size, o) ==
    /\ bytes_read + size <= MaxBytes
    /\ IF o = "resize_err"
       THEN UNCHANGED <<socks, tls, buffer, bytes_read, idle_deadline, last_io>>
       ELSE LET resized == resize_buffer(buffer, size)
                io == IF o = "reset_err" THEN "ok" ELSE o
            IN  /\ read_exact(size, io)
                /\ \E data \in Filled(resized.data_buffer, io) :
                      buffer' = [resized EXCEPT !.data_buffer = data]
                /\ bytes_read' = IF io = "ok" THEN bytes_read + size ELSE bytes_read
                /\ IF o = "ok"
                   THEN refresh /\ last_io' = now
                   ELSE UNCHANGED <<idle_deadline, last_io>>
    /\ last' = Call("read_buffer", o = "ok", IF o = "ok" THEN size ELSE 0)

\* o is an outcome of read_exact, or "resize_err" (Buffer::resize_buffer
\* returns Err) or "reset_err" (read_exact succeeds, Buffer::reset_offset
\* returns Err)
read_buffer(size, o) ==
    /\ bytes_read + size <= MaxBytes
    /\ IF o = "resize_err"
       THEN UNCHANGED <<socks, tls, buffer, bytes_read,
                        idle_deadline, last_io>>
       ELSE LET resized == resize_buffer(buffer, size)
                io == IF o = "reset_err" THEN "ok" ELSE o
            IN  /\ read_exact(size, io)
                /\ \E data \in Filled(resized.data_buffer, io) :
                      buffer' = IF o = "ok"
                                THEN reset_offset([resized EXCEPT !.data_buffer = data])
                                ELSE [resized EXCEPT !.data_buffer = data]
                /\ bytes_read' = IF io = "ok" THEN bytes_read + size ELSE bytes_read
                /\ IF o = "ok"
                   THEN refresh /\ last_io' = now
                   ELSE UNCHANGED <<idle_deadline, last_io>>
    /\ last' = Call("read_buffer", o = "ok", IF o = "ok" THEN size ELSE 0)

\* TcpStream::set_read_timeout / set_write_timeout: std's own check, which
\* refuses a zero Duration before the platform is asked
sock_timeout_ok(d) == d # 0

\* lines 133-146: set_read_timeout(timeout)? then set_write_timeout(timeout)?
\* on the same socket.  r names the call that returns Err, if any: a zero
\* Duration is refused by the first call; any other value either call can
\* refuse with a platform error (setsockopt), the second after the first has
\* taken effect.
set_timeout(d) ==
    \E r \in {"ok", "read_err", "write_err"} :
       /\ ~sock_timeout_ok(d) => r = "read_err"
       /\ socks' = CASE r = "ok" ->
                          [socks EXCEPT ![conn.sock].rt = d, ![conn.sock].wt = d]
                     [] r = "read_err" -> socks
                     [] r = "write_err" -> [socks EXCEPT ![conn.sock].rt = d]
       /\ last' = Call("set_timeout", r = "ok", IF r = "ok" THEN d ELSE 0)
       /\ UNCHANGED <<tls, idle_deadline, bytes_read, buffer, last_io>>

bookmark ==
    /\ bytes_read' = 0
    /\ last' = Call("bookmark", TRUE, 0)
    /\ UNCHANGED <<socks, tls, idle_deadline, buffer, last_io>>

\* ---------------------------------------------------------- Connection::new
\* line 53: TcpStream::connect(addr)?
Connect ==
    /\ pc = "connect"
    /\ \/ /\ socks' = Append(socks, NewSocket)
          /\ pc' = "stream"
          /\ UNCHANGED result
       \/ /\ result' = "ConnectionError"
          /\ pc' = "failed"
          /\ UNCHANGED socks
    /\ UNCHANGED <<policy, now, tls_conn, tls, conn, timeout, idle_timeout,
                   idle_deadline, bytes_read, buffer, auth_calls, auth_err,
                   last, last_io>>

\* lines 55-57: ClientConnection::new(config.clone(), server_name)
TlsClientNew ==
    /\ pc = "stream" /\ policy.tls_config
    /\ tls_conn' \in {"ok", "err"}
    /\ pc' = "connect_tls"
    /\ UNCHANGED <<policy, now, socks, tls, conn, timeout, idle_timeout,
                   idle_deadline, bytes_read, buffer, auth_calls, auth_err,
                   result, last, last_io>>

\* the second dial as it would be if its failure left the first socket open
ConnectTls_leaks ==
    /\ pc = "connect_tls"
    /\ \/ /\ socks' = Append(socks, NewSocket)
          /\ pc' = "wrap"
          /\ UNCHANGED result
       \/ /\ result' = "ConnectionError"
          /\ pc' = "failed"
          /\ UNCHANGED socks
    /\ UNCHANGED <<policy, now, tls_conn, tls, conn, timeout, idle_timeout,
                   idle_deadline, bytes_read, buffer, auth_calls, auth_err,
                   last, last_io>>

\* line 58: let sock = TcpStream::connect(addr)?
ConnectTls ==
    /\ pc = "connect_tls"
    /\ \/ /\ socks' = Append(socks, NewSocket)
          /\ pc' = "wrap"
          /\ UNCHANGED result
       \/ /\ result' = "ConnectionError"
          /\ pc' = "failed"
          /\ socks' = DropAll(socks)
    /\ UNCHANGED <<policy, now, tls_conn, tls, conn, timeout, idle_timeout,
                   idle_deadline, bytes_read, buffer, auth_calls, auth_err,
                   last, last_io>>

\* lines 59-60: StreamOwned::new(conn.unwrap(), sock); the unwrap panics on
\* Err; StreamOwned::new performs no I/O, the session is still to be negotiated
WrapTls ==
    /\ pc = "wrap"
    /\ IF tls_conn = "ok"
       THEN /\ conn' = [kind |-> "TLS", sock |-> Len(socks)]
            /\ tls' = "pending"
            /\ pc' = "init"
            /\ UNCHANGED socks
       ELSE /\ pc' = "panicked"
            /\ socks' = DropAll(socks)
            /\ UNCHANGED <<conn, tls>>
    /\ UNCHANGED <<policy, now, tls_conn, timeout, idle_timeout, idle_deadline,
                   bytes_read, buffer, auth_calls, auth_err, result, last, last_io>>

\* line 62: None => Stream::Plain(tcp_stream)
StreamPlain ==
    /\ pc = "stream" /\ ~policy.tls_config
    /\ conn' = [kind |-> "Plain", sock |-> 1]
    /\ pc' = "init"
    /\ UNCHANGED <<policy, now, socks, tls_conn, tls, timeout, idle_timeout,
                   idle_deadline, bytes_read, buffer, auth_calls, auth_err,
                   result, last, last_io>>

\* lines 65-75: let mut conn = Connection { .. }
InitConnection ==
    /\ pc = "init"
    /\ buffer' = Buffer_new
    /\ bytes_read' = 0
    /\ timeout' = policy.timeout
    /\ idle_timeout' = policy.idle_timeout
    /\ idle_deadline' = IF policy.idle_timeout = None THEN None
                        ELSE now + policy.idle_timeout
    /\ pc' = "authenticate"
    /\ UNCHANGED <<policy, now, socks, tls_conn, tls, conn, auth_calls,
                   auth_err, result, last, last_io>>

\* authenticate as it would be if it called the collaborator without looking
\* at the credentials
authenticate_always ==
    /\ pc = "authenticate"
    /\ auth_calls' = auth_calls + 1 /\ pc' = "auth_prepare"
    /\ UNCHANGED <<policy, now, tls_conn, conn, timeout, idle_timeout, auth_err, result>>
    /\ UNCHANGED method_vars

\* authenticate as it would be if it never called the collaborator
authenticate_never ==
    /\ pc = "authenticate"
    /\ auth_calls' = auth_calls /\ pc' = "refresh"
    /\ UNCHANGED <<policy, now, tls_conn, conn, timeout, idle_timeout, auth_err, result>>
    /\ UNCHANGED method_vars

\* lines 160-162 and 173: Connection::authenticate up to the collaborator's call
authenticate ==
    /\ pc = "authenticate"
    /\ IF policy.user_password
       THEN auth_calls' = auth_calls + 1 /\ pc' = "auth_prepare"
       ELSE auth_calls' = auth_calls /\ pc' = "refresh"
    /\ UNCHANGED <<policy, now, tls_conn, conn, timeout, idle_timeout, auth_err, result>>
    /\ UNCHANGED method_vars

\* AdminCommand::authenticate (commands/admin_command.rs): encodes the request
\* in the connection's buffer, ...
AuthRequest == <<1>>
AuthReplySize == 1
AuthAccepted == 0

AuthPrepare ==
    /\ pc = "auth_prepare"
    /\ buffer' = [data_buffer |-> AuthRequest, data_offset |-> 0]
    /\ pc' = "auth_write"
    /\ UNCHANGED <<policy, now, socks, tls_conn, tls, conn, timeout, idle_timeout,
                   idle_deadline, bytes_read, auth_calls, auth_err, result,
                   last, last_io>>

\* ... writes it through the connection, ...
AuthWrite ==
    /\ pc = "auth_write"
    /\ \E o \in IoOutcomes :
          /\ flush(o)
          /\ IF o = "ok"
             THEN pc' = "auth_read" /\ UNCHANGED auth_err
             ELSE pc' = "auth_returned" /\ auth_err' = "IoError"
    /\ UNCHANGED <<policy, now, tls_conn, conn, timeout, idle_timeout, auth_calls, result>>

\* ... reads the response through the connection and interprets it
AuthRead ==
    /\ pc = "auth_read"
    /\ \E o \in IoOutcomes \cup {"resize_err", "reset_err"} :
          /\ read_buffer(AuthReplySize, o)
          /\ pc' = "auth_returned"
          /\ auth_err' = IF o # "ok" THEN "IoError"
                         ELSE IF buffer'.data_buffer[1] = AuthAccepted THEN "none"
                         ELSE "AuthenticationError"
    /\ UNCHANGED <<policy, now, tls_conn, conn, timeout, idle_timeout, auth_calls, result>>

\* lines 163-165: Ok(()) => return Ok(())
authenticate_ok ==
    /\ pc = "auth_returned" /\ auth_err = "none"
    /\ pc' = "refresh"
    /\ UNCHANGED <<policy, now, tls_conn, conn, timeout, idle_timeout, auth_calls,
                   auth_err, result>>
    /\ UNCHANGED method_vars

\* authenticate's Err arm as it would be without self.close()
authenticate_err_no_close ==
    /\ pc = "auth_returned" /\ auth_err # "none"
    /\ pc' = "auth_failed"
    /\ UNCHANGED <<policy, now, tls_conn, conn, timeout, idle_timeout, auth_calls,
                   auth_err, result>>
    /\ UNCHANGED method_vars

\* lines 166-169: Err(err) => { self.close(); return Err(err); }
authenticate_err ==
    /\ pc = "auth_returned" /\ auth_err # "none"
    /\ close
    /\ pc' = "auth_failed"
    /\ UNCHANGED <<policy, now, tls_conn, conn, timeout, idle_timeout, auth_calls,
                   auth_err, result>>

\* line 76: conn.authenticate(..)? returns the error; conn and tcp_stream are dropped
NewReturnErr ==
    /\ pc = "auth_failed"
    /\ result' = auth_err
    /\ socks' = DropAll(socks)
    /\ pc' = "failed"
    /\ UNCHANGED <<policy, now, tls_conn, tls, conn, timeout, idle_timeout,
                   idle_deadline, bytes_read, buffer, auth_calls, auth_err,
                   last, last_io>>

\* the return of new as it would be without line 77, conn.refresh()
NewReturnOk_no_refresh ==
    /\ pc = "refresh"
    /\ last_io' = now
    /\ result' = "Ok"
    /\ socks' = [i \in 1..Len(socks) |->
                    IF i = conn.sock THEN socks[i] ELSE [socks[i] EXCEPT !.st = "closed"]]
    /\ pc' = "ready"
    /\ UNCHANGED <<policy, now, tls_conn, tls, conn, timeout, idle_timeout,
                   idle_deadline, bytes_read, buffer, auth_calls, auth_err, last>>

\* lines 77-79: conn.refresh(); Ok(conn); a tcp_stream that was not moved
\* into the stream is dropped
NewReturnOk ==
    /\ pc = "refresh"
    /\ refresh
    /\ last_io' = now
    /\ result' = "Ok"
    /\ socks' = [i \in 1..Len(socks) |->
                    IF i = conn.sock THEN socks[i] ELSE [socks[i] EXCEPT !.st = "closed"]]
    /\ pc' = "ready"
    /\ UNCHANGED <<policy, now, tls_conn, tls, conn, timeout, idle_timeout,
                   bytes_read, buffer, auth_calls, auth_err, last>>

\* ------------------------------------------ the caller of a ready connection
CallerFrame == pc = "ready" /\ UNCHANGED <<pc, now>> /\ UNCHANGED ctor_vars

\* what is written matters to the connection by its length only
CallWrite ==
    CallerFrame /\ \E n \in Sizes, o \in IoOutcomes : write([i \in 1..n |-> 0], o)

CallFlush == CallerFrame /\ \E o \in IoOutcomes : flush(o)

CallRead == CallerFrame /\ \E n \in Sizes, o \in IoOutcomes : read(n, o)

CallReadBuffer ==
    CallerFrame /\ \E n \in Sizes, o \in IoOutcomes \cup {"resize_err", "reset_err"} :
                      read_buffer(n, o)

CallSetTimeout == CallerFrame /\ \E d \in {None} \cup Durations : set_timeout(d)

CallClose == CallerFrame /\ close

CallBookmark == CallerFrame /\ bookmark

\* is_idle as it would be if an idle connection closed itself when asked
CallIsIdle_evicts ==
    /\ CallerFrame
    /\ last' = Call("is_idle", TRUE, 0)
    /\ socks' = IF is_idle THEN SetSockState("shutdown") ELSE socks
    /\ UNCHANGED <<tls, idle_deadline, bytes_read, buffer, last_io>>

CallIsIdle ==
    /\ CallerFrame
    /\ last' = Call("is_idle", TRUE, 0)
    /\ UNCHANGED <<socks, tls, idle_deadline, bytes_read, buffer,
                   last_io>>

\* the buffer is a public field: the caller encodes a command in it ...
BufferWrite ==
    /\ CallerFrame
    /\ \E data \in Payloads : buffer' = [data_buffer |-> data, data_offset |-> 0]
    /\ last' = Call("buffer", TRUE, 0)
    /\ UNCHANGED <<socks, tls, idle_deadline, bytes_read, last_io>>

\* ... and decodes a response from it, which advances the read offset
BufferRead ==
    /\ CallerFrame
    /\ buffer.data_offset < Len(buffer.data_buffer)
    /\ buffer' = [buffer EXCEPT !.data_offset = @ + 1]
    /\ last' = Call("buffer", TRUE, 0)
    /\ UNCHANGED <<socks, tls, idle_deadline, bytes_read, last_io>>

\* the clock advances between any two steps
Tick ==
    /\ now < MaxTime
    /\ now' = now + 1
    /\ UNCHANGED <<pc, socks, tls, idle_deadline, bytes_read, buffer, last, last_io>>
    /\ UNCHANGED ctor_vars

Next ==
    \/ Connect \/ TlsClientNew \/ ConnectTls \/ WrapTls \/ StreamPlain
    \/ InitConnection \/ authenticate \/ AuthPrepare \/ AuthWrite \/ AuthRead
    \/ authenticate_ok \/ authenticate_err \/ NewReturnErr \/ NewReturnOk
    \/ CallWrite \/ CallFlush \/ CallRead \/ CallReadBuffer \/ CallSetTimeout
    \/ CallClose \/ CallBookmark \/ CallIsIdle \/ BufferWrite \/ BufferRead
    \/ Tick

Spec == Init /\ [][Next]_vars

\* ------------------------------------------------------------------ claims
IoOps == {"write", "flush", "read", "read_buffer"}

\* a step that is a call of a method of the connection, by the collaborator
\* during construction or by the caller afterwards: Tick is the only step
\* that moves the clock, and last' names the method called
MethodStep == now' = now /\ pc \in {"auth_write", "auth_read", "ready"}

\* C1: when the authentication collaborator returns an error, close() has
\* run on the connection's socket, which is no longer open, before
\* Connection::new returns; new returns the collaborator's error; and no
\* caller ever holds the connection.
C1_AuthFailureClosesAndPropagates ==
    /\ auth_err # "none" => pc \in {"auth_returned", "auth_failed", "failed"}
    /\ pc = "auth_failed" => last.op = "close" /\ Sock.st \in {"shutdown", "peer_closed"}
    /\ (pc = "failed" /\ auth_err # "none") =>
          /\ result = auth_err
          /\ \A i \in 1..Len(socks) : socks[i].st = "closed"

C1_Witness ==
    pc = "failed" /\ result = "AuthenticationError" /\ policy.user_password

\* C2: without credentials in the policy the authentication collaborator is
\* never invoked, with the plain and with the TLS transport.
C2_NoCredentialsNoAuthCall == ~policy.user_password => auth_calls = 0

C2_Witness ==
    ~policy.user_password /\ pc = "ready" /\ conn.kind = "TLS" /\ last.op = "write"

\* C3: with credentials the collaborator is invoked exactly once, and its
\* handshake has succeeded by the time the connection is returned, so before
\* any call of the caller.
C3_AuthOnceBeforeReturn ==
    policy.user_password =>
        /\ auth_calls <= 1
        /\ pc \in {"refresh", "ready"} => auth_calls = 1 /\ auth_err = "none"
        /\ last.op \in {"set_timeout", "bookmark", "is_idle", "buffer", "close"} => auth_calls = 1

C3_Witness ==
    policy.user_password /\ pc = "ready" /\ last.op = "flush" /\ last.ok

\* C4: wherever a socket read or write is issued through the connection, in
\* the authentication handshake or by the caller, the socket's read and write
\* deadlines are the timeout the connection was configured with.
C4_IoUnderConfiguredTimeout ==
    (pc \in {"auth_write", "auth_read", "ready"} /\ timeout # None) =>
        Sock.rt = timeout /\ Sock.wt = timeout

\* C5 as stated: for every idle timeout T, zero included, is_idle() is false
\* at the instant of a successful read, write or flush, and is_idle() is
\* true only when at least T has passed since the last successful I/O.
JustDidIo == last.op \in IoOps /\ last.ok /\ last_io = now

C5_IdleTracksLastIo_AnyT ==
    (pc = "ready" /\ idle_timeout # None) =>
        /\ JustDidIo => ~is_idle
        /\ is_idle => now - last_io >= idle_timeout

\* C5 amended: the first half holds for T > 0; with T = 0 the deadline is
\* the instant of the I/O itself and is_idle() is true at once.
C5_IdleTracksLastIo ==
    (pc = "ready" /\ idle_timeout # None) =>
        /\ (JustDidIo /\ idle_timeout > 0) => ~is_idle
        /\ is_idle => now - last_io >= idle_timeout
        /\ idle_timeout = 0 => is_idle

C5_Witness ==
    /\ pc = "ready" /\ idle_timeout = MaxIdle /\ MaxIdle > 0
    /\ last.op = "write" /\ last.ok /\ last_io >= 0
    /\ is_idle /\ now = last_io + MaxIdle

\* C6: a connection constructed without an idle timeout is never idle.
C6_NoIdleTimeoutNeverIdle == policy.idle_timeout = None => ~is_idle

C6_Witness ==
    /\ policy.idle_timeout = None /\ pc = "ready" /\ now > 0
    /\ last.op = "read_buffer" /\ last.ok

\* C7: bookmark sets bytes_read to 0, a successful read or read_buffer of n
\* bytes adds exactly n, and no other call changes it.
C7_BytesReadIsSumOfSuccessfulReads ==
    [][MethodStep =>
          bytes_read' = CASE last'.op = "bookmark" -> 0
                          [] last'.op \in {"read", "read_buffer"} /\ last'.ok ->
                                bytes_read + last'.n
                          [] OTHER -> bytes_read]_vars

\* C8: a read or read_buffer that returns an error leaves bytes_read as it was.
C8_FailedReadNoCredit ==
    [][(MethodStep /\ last'.op \in {"read", "read_buffer"} /\ ~last'.ok) =>
          bytes_read' = bytes_read]_vars

\* C9: after a successful read_buffer(N) the staging buffer holds N bytes
\* and its read offset is 0.
C9_ReadBufferFillsAndRewinds ==
    (last.op = "read_buffer" /\ last.ok) =>
        Len(buffer.data_buffer) = last.n /\ buffer.data_offset = 0

C9_Witness ==
    pc = "ready" /\ last.op = "read_buffer" /\ last.ok /\ last.n = MaxLen /\ bytes_read = MaxBytes

\* C10: with a TLS configuration, Connection::new never panics, returns a
\* connection only once the TLS session is established, and returns a
\* TlsError when the session cannot be established.
C10_TlsFailureIsAnError ==
    policy.tls_config =>
        /\ pc # "panicked"
        /\ pc = "ready" => tls = "established"
        /\ (pc = "failed" /\ tls = "failed") => result = "TlsError"

\* C11: construction opens exactly one TCP socket, with the plain and with
\* the TLS transport, and never more than one socket opened for the
\* connection exists.
OpenSockets == {i \in 1..Len(socks) : socks[i].st # "closed"}

C11_OneSocketPerConnection ==
    /\ Len(socks) <= 1
    /\ Cardinality(OpenSockets) <= 1
    /\ pc = "ready" => Len(socks) = 1

\* C12: is_idle() changes no field of the connection and touches no socket,
\* and the connection's socket is shut down or released only by a call of
\* close() (by the caller, or by authenticate when the handshake failed) and
\* by the error return that follows that failure; never because the
\* connection is idle.
IsIdleStep == pc = "ready" /\ now' = now /\ last'.op = "is_idle"

SocketGoesDown ==
    /\ conn.sock > 0
    /\ socks[conn.sock].st \notin {"shutdown", "closed"}
    /\ socks'[conn.sock].st \in {"shutdown", "closed"}

C12_IdlenessNeverClosesSocket ==
    [][/\ IsIdleStep =>
             UNCHANGED <<socks, tls, conn, timeout, idle_timeout, idle_deadline,
                         bytes_read, buffer>>
       /\ SocketGoesDown =>
             \/ last'.op = "close" /\ pc \in {"ready", "auth_returned"}
             \/ pc = "auth_failed"]_vars

C12_Witness ==
    pc = "ready" /\ last.op = "is_idle" /\ is_idle /\ Sock.st = "open" /\ idle_timeout = MaxIdle

\* C13: close() returns normally in every state of the connection, also
\* when the platform rejects the shutdown, with either transport; and a
\* close() that follows a close() changes nothing.
CloseStep == now' = now /\ pc \in {"ready", "auth_returned"} /\ last'.op = "close"

C13_CloseNeverFails ==
    [][CloseStep =>
          /\ last'.ok
          /\ last.op = "close" =>
                UNCHANGED <<socks, tls, conn, timeout, idle_timeout, idle_deadline,
                            bytes_read, buffer, last>>]_vars

C13_Witness ==
    /\ pc = "ready" /\ conn.kind = "TLS"
    /\ last.op = "close" /\ last.ok /\ Sock.st = "peer_closed"

\* C14: the connection a successful Connection::new returns has its idle
\* deadline at the instant of the return plus the idle timeout (none without
\* an idle timeout): it is computed after the handshake, not at the dial or
\* when the struct is built.
C14_DeadlineFromFinalRefresh ==
    [][(pc # "ready" /\ pc' = "ready") =>
          idle_deadline' = IF policy.idle_timeout = None THEN None
                           ELSE now' + policy.idle_timeout]_vars

\* returned after a handshake that ended later than the dial, no call made since
C14_Witness ==
    /\ pc = "ready" /\ policy.user_password /\ idle_timeout = MaxIdle
    /\ last.op = "read_buffer" /\ bytes_read = AuthReplySize
    /\ last_io = MaxTime /\ now = MaxTime /\ idle_deadline = MaxTime + MaxIdle

\* C15: a write, flush, read or read_buffer that returns an error leaves the
\* idle deadline as it was, so failing I/O does not keep a connection from
\* becoming idle.
C15_FailedIoKeepsDeadline ==
    [][(MethodStep /\ last'.op \in IoOps /\ ~last'.ok) =>
          idle_deadline' = idle_deadline]_vars

\* a write that timed out on a connection that has meanwhile become idle
C15_Witness ==
    /\ pc = "ready" /\ conn.kind = "Plain" /\ Sock.st = "open"
    /\ last.op = "write" /\ ~last.ok
    /\ idle_timeout = MaxIdle /\ MaxIdle > 0 /\ is_idle /\ last_io < now

\* C16: once close() has shut the socket down, every write, flush, read and
\* read_buffer call, whatever its argument, returns an error and leaves the
\* idle deadline and bytes_read as they were.
C16_IoAfterCloseFails ==
    [][(pc = "ready" /\ now' = now /\ Sock.st = "shutdown" /\ last'.op \in IoOps) =>
          /\ ~last'.ok
          /\ idle_deadline' = idle_deadline
          /\ bytes_read' = bytes_read]_vars

\* C17: set_timeout(d) is all-or-nothing: when it returns Ok the socket's read
\* and write deadlines are both d, when it returns Err both are what they
\* were, and so the two deadlines are equal in every reachable state.
C17_TimeoutAllOrNothing ==
    /\ [](conn.sock > 0 => Sock.rt = Sock.wt)
    /\ [][(pc = "ready" /\ now' = now /\ last'.op = "set_timeout") =>
             IF last'.ok
             THEN socks'[conn.sock].rt = last'.n /\ socks'[conn.sock].wt = last'.n
             ELSE socks' = socks]_vars

\* C18: a flush that returns Ok has handed the transport the whole staging
\* buffer, in order, whatever the buffer's offset; it leaves the buffer and
\* bytes_read as they were, and of the connection's fields only the idle
\* deadline changes, to the refreshed value.
C18_FlushSendsWholeBuffer ==
    [][(MethodStep /\ last'.op = "flush" /\ last'.ok) =>
          /\ last'.sent = buffer.data_buffer
          /\ UNCHANGED <<buffer, bytes_read, conn, timeout, idle_timeout>>
          /\ idle_deadline' = IF idle_timeout = None THEN None
                                                     ELSE now + idle_timeout]_vars

\* a flush of a full-length buffer holding a non-zero byte, its offset advanced
C18_Witness ==
    /\ pc = "ready" /\ last.op = "flush" /\ last.ok
    /\ Len(buffer.data_buffer) = MaxLen /\ buffer.data_buffer[1] = 1
    /\ buffer.data_offset > 0
    /\ last.sent = buffer.data_buffer
    /\ idle_deadline = now + MaxIdle /\ now > 0

\* C19: when a TCP dial of Connection::new fails, new returns an error and
\* the authentication collaborator was never invoked, no method of the
\* connection has read or written anything, no TLS session was started, and
\* no socket is left open.
C19_DialFailureLeavesNothing ==
    result = "ConnectionError" =>
        /\ pc = "failed"
        /\ auth_calls = 0
        /\ last = NoCall
        /\ tls = "none"
        /\ conn.kind = "none"
        /\ OpenSockets = {}

\* the second dial, made for the TLS stream, failed after the first succeeded
C19_Witness ==
    /\ pc = "failed" /\ result = "ConnectionError"
    /\ policy.tls_config /\ policy.user_password
    /\ Len(socks) = 1 /\ socks[1].st = "closed"
====
